---- MODULE Spec2Model ----
(***************************************************************************)
(* Model of src/lib.rs of gml-rs: sexp_to_graph, the interpreter that      *)
(* walks a parsed GML tree (asexp::Sexp) and builds a petgraph             *)
(* Graph<N, E, Directed> with caller-supplied weight mappers.              *)
(*                                                                         *)
(* Option<T> is a sequence of length <= 1 (None == <<>>, Some(x) == <<x>>).*)
(* A Sexp is a record with a "tag" field; a Result is a record with tag    *)
(* "Ok" or "Err".  NodeIndex values are 0-based, as in petgraph.           *)
(***************************************************************************)
EXTENDS Integers, Sequences, FiniteSets, TLC

\* Bounds of the explored inputs.
MaxEntries == 3
MaxId == 2

None == <<>>
Some(x) == <<x>>

Ids == 1 .. MaxId

--------------------------------------------------------------------------
(* Input trees                                                             *)

UInt(n) == [tag |-> "UInt", val |-> n]
SInt(n) == [tag |-> "SInt", val |-> n]
StrAtom == [tag |-> "Str", val |-> 0]

\* What get("id") / get("source") / get("target") can yield.
IdFields == {None, Some(SInt(1))} \cup {Some(UInt(n)) : n \in Ids}

\* What get("weight") can yield: no weight, or one of two opaque sub-trees
\* (for an edge: no weight or one sub-tree).
WeightFields == {None, Some("w"), Some("x")}
EdgeWeightFields == {None, Some("x")}

NodeInfo(id, weight) == [tag |-> "Map", id |-> id, weight |-> weight]
EdgeInfo(source, target, weight) ==
    [tag |-> "Map", source |-> source, target |-> target, weight |-> weight]

DirectedEntries ==
    {[key |-> "directed", val |-> x] : x \in {UInt(0), UInt(1), UInt(2), SInt(1)}}

NodeEntries ==
    {[key |-> "node", val |-> StrAtom]}
    \cup {[key |-> "node", val |-> NodeInfo(None, None)],
          [key |-> "node", val |-> NodeInfo(Some(SInt(1)), Some("x"))]}
    \cup {[key |-> "node", val |-> NodeInfo(Some(UInt(n)), w)] :
             n \in Ids, w \in WeightFields}

EdgeEntries ==
    {[key |-> "edge", val |-> StrAtom]}
    \cup {[key |-> "edge", val |-> EdgeInfo(None, None, Some("x"))],
          [key |-> "edge", val |-> EdgeInfo(Some(UInt(1)), Some(SInt(1)), Some("x"))]}
    \cup {[key |-> "edge", val |-> EdgeInfo(Some(UInt(s)), Some(UInt(t)), w)] :
             s \in Ids, t \in Ids, w \in EdgeWeightFields}

OtherEntries == {[key |-> "label", val |-> StrAtom]}

Entries == DirectedEntries \cup NodeEntries \cup EdgeEntries \cup OtherEntries

\* The entries of the sections that stand beside other top-level keys.
PlainEntries ==
    {[key |-> "directed", val |-> x] : x \in {UInt(0), UInt(1)}}
    \cup {[key |-> "node", val |-> NodeInfo(Some(UInt(n)), None)] : n \in Ids}
    \cup {[key |-> "node", val |-> NodeInfo(Some(UInt(1)), Some("x"))]}
    \cup {[key |-> "edge", val |-> EdgeInfo(Some(UInt(s)), Some(UInt(t)), None)] :
             s \in Ids, t \in Ids}
    \cup OtherEntries

GraphSection(items) == [tag |-> "Map", items |-> items]

\* A top-level tree: not a map, or a map with an optional "graph" value and
\* possibly other keys beside it.
TopMap(g, other) == [tag |-> "Map", graph |-> g, other |-> other]

\* The input is any tree of these shapes with at most MaxEntries entries.
IsDocument(sx) ==
    \/ sx = StrAtom
    \/ \E g \in {None, Some(StrAtom)}, o \in BOOLEAN : sx = TopMap(g, o)
    \/ \E k \in 0 .. MaxEntries : \E items \in [1 .. k -> Entries] :
          sx = TopMap(Some(GraphSection(items)), FALSE)
    \/ \E k \in 0 .. MaxEntries : \E items \in [1 .. k -> PlainEntries] :
          sx = TopMap(Some(GraphSection(items)), TRUE)

--------------------------------------------------------------------------
(* Library operations used by the interpreter                              *)

Ok(x) == [tag |-> "Ok", val |-> x]
Err(m) == [tag |-> "Err", msg |-> m]
Pending == [tag |-> "Pending"]
Panic == [tag |-> "Panic"]

into_map(s) == IF s.tag = "Map" THEN Ok(s) ELSE Err("not a map")

get_uint(s) == IF s.tag = "UInt" THEN Some(s.val) ELSE None

IsUInt(field) == field # None /\ field[1].tag = "UInt"

\* BTreeMap::insert: the new value replaces an old one.
insert(m, k, x) == [y \in DOMAIN m \cup {k} |-> IF y = k THEN x ELSE m[y]]

\* Graph::add_node: appends the weight; the new index is the old node count.
add_node(g, weight) == [g EXCEPT !.nodes = Append(@, weight)]

add_edge(g, a, b, weight) ==
    [g EXCEPT !.edges = Append(@, [source |-> a, target |-> b, weight |-> weight])]

\* The two mappers of a caller: both take no weight and "w", and decline "x"
\* (payloads are named after the mapper and the weight they come from).
node_weight_fn(weight) ==
    IF weight = None THEN Some("n-default")
    ELSE IF weight = Some("w") THEN Some("n-w")
    ELSE None

edge_weight_fn(weight) ==
    IF weight = None THEN Some("e-default")
    ELSE IF weight = Some("w") THEN Some("e-w")
    ELSE None

--------------------------------------------------------------------------
(* The body of sexp_to_graph, arm by arm, on a record of its locals        *)
(* st = [node_map, graph, edges, calls, ret]: ret is the value of an early *)
(* return (None while running), calls the mapper invocations so far.       *)

EmptyMap == [y \in {} |-> 0]

NewLocals ==
    [node_map |-> EmptyMap,
     graph    |-> [nodes |-> <<>>, edges |-> <<>>],
     edges    |-> <<>>,
     calls    |-> <<>>,
     ret      |-> None]

Return(st, r) == [st EXCEPT !.ret = Some(r)]

Call(st, fn, arg) == [st EXCEPT !.calls = Append(@, [fn |-> fn, arg |-> arg])]

\* Variant: any unsigned integer passes for "directed".
DirectedArm_AnyUInt(st, v) ==
    IF get_uint(v) # None THEN st
    ELSE Return(st, Err("only directed graph supported"))

DirectedArm(st, v) ==
    IF get_uint(v) = Some(1) THEN st
    ELSE Return(st, Err("only directed graph supported"))

\* Variant: the result of node_map.insert is ignored.
NodeArm_NoDupCheck(st, v) ==
    LET r == into_map(v) IN
    IF r.tag = "Err" THEN Return(st, r)
    ELSE LET node_info == r.val IN
         IF IsUInt(node_info.id)
         THEN LET node_id == node_info.id[1].val
                  called  == Call(st, "node", node_info.weight)
                  weight  == node_weight_fn(node_info.weight)
              IN  IF weight # None
                  THEN [called EXCEPT
                          !.graph = add_node(@, weight[1]),
                          !.node_map = insert(@, node_id, Len(st.graph.nodes))]
                  ELSE Return(called, Err("invalid node weight"))
         ELSE Return(st, Err("Invalid id"))

NodeArm(st, v) ==
    LET r == into_map(v) IN
    IF r.tag = "Err" THEN Return(st, r)
    ELSE LET node_info == r.val IN
         IF IsUInt(node_info.id)
         THEN LET node_id == node_info.id[1].val
                  called  == Call(st, "node", node_info.weight)
                  weight  == node_weight_fn(node_info.weight)
              IN  IF weight # None
                  THEN LET idx   == Len(st.graph.nodes)
                           added == [called EXCEPT
                                       !.graph = add_node(@, weight[1]),
                                       !.node_map = insert(@, node_id, idx)]
                       IN  IF node_id \in DOMAIN st.node_map
                           THEN Return(added, Err("duplicate node-id"))
                           ELSE added
                  ELSE Return(called, Err("invalid node weight"))
         ELSE Return(st, Err("Invalid id"))

\* Variant: endpoints are looked up when the edge entry is met.
EdgeArm_Eager(st, v) ==
    LET r == into_map(v) IN
    IF r.tag = "Err" THEN Return(st, r)
    ELSE LET edge_info == r.val IN
         IF ~IsUInt(edge_info.source) THEN Return(st, Err("Invalid source id"))
         ELSE IF ~IsUInt(edge_info.target) THEN Return(st, Err("Invalid target id"))
         ELSE LET source == edge_info.source[1].val
                  target == edge_info.target[1].val
                  called == Call(st, "edge", edge_info.weight)
                  weight == edge_weight_fn(edge_info.weight)
              IN  IF weight # None
                  THEN IF {source, target} \subseteq DOMAIN st.node_map
                       THEN [called EXCEPT !.edges =
                               Append(@, [source |-> source, target |-> target,
                                          weight |-> weight[1]])]
                       ELSE Return(called, Err("unknown source/target id"))
                  ELSE Return(called, Err("invalid edge weight"))

\* Variant: an edge whose weight is declined is dropped and the walk goes on.
EdgeArm_SkipDeclined(st, v) ==
    LET r == into_map(v) IN
    IF r.tag = "Err" THEN Return(st, r)
    ELSE LET edge_info == r.val IN
         IF ~IsUInt(edge_info.source) THEN Return(st, Err("Invalid source id"))
         ELSE IF ~IsUInt(edge_info.target) THEN Return(st, Err("Invalid target id"))
         ELSE LET source == edge_info.source[1].val
                  target == edge_info.target[1].val
                  called == Call(st, "edge", edge_info.weight)
                  weight == edge_weight_fn(edge_info.weight)
              IN  IF weight # None
                  THEN [called EXCEPT !.edges =
                          Append(@, [source |-> source, target |-> target,
                                     weight |-> weight[1]])]
                  ELSE called

\* Variant: the target is checked before the source.
EdgeArm_TargetFirst(st, v) ==
    LET r == into_map(v) IN
    IF r.tag = "Err" THEN Return(st, r)
    ELSE LET edge_info == r.val IN
         IF ~IsUInt(edge_info.target) THEN Return(st, Err("Invalid target id"))
         ELSE IF ~IsUInt(edge_info.source) THEN Return(st, Err("Invalid source id"))
         ELSE LET source == edge_info.source[1].val
                  target == edge_info.target[1].val
                  called == Call(st, "edge", edge_info.weight)
                  weight == edge_weight_fn(edge_info.weight)
              IN  IF weight # None
                  THEN [called EXCEPT !.edges =
                          Append(@, [source |-> source, target |-> target,
                                     weight |-> weight[1]])]
                  ELSE Return(called, Err("invalid edge weight"))

\* Variant: an edge between known nodes goes into the graph at once.
EdgeArm_InsertNow(st, v) ==
    LET r == into_map(v) IN
    IF r.tag = "Err" THEN Return(st, r)
    ELSE LET edge_info == r.val IN
         IF ~IsUInt(edge_info.source) THEN Return(st, Err("Invalid source id"))
         ELSE IF ~IsUInt(edge_info.target) THEN Return(st, Err("Invalid target id"))
         ELSE LET source == edge_info.source[1].val
                  target == edge_info.target[1].val
                  called == Call(st, "edge", edge_info.weight)
                  weight == edge_weight_fn(edge_info.weight)
              IN  IF weight # None
                  THEN IF {source, target} \subseteq DOMAIN st.node_map
                       THEN [called EXCEPT !.graph =
                               add_edge(@, st.node_map[source], st.node_map[target],
                                        weight[1])]
                       ELSE [called EXCEPT !.edges =
                               Append(@, [source |-> source, target |-> target,
                                          weight |-> weight[1]])]
                  ELSE Return(called, Err("invalid edge weight"))

EdgeArm(st, v) ==
    LET r == into_map(v) IN
    IF r.tag = "Err" THEN Return(st, r)
    ELSE LET edge_info == r.val IN
         IF ~IsUInt(edge_info.source) THEN Return(st, Err("Invalid source id"))
         ELSE IF ~IsUInt(edge_info.target) THEN Return(st, Err("Invalid target id"))
         ELSE LET source == edge_info.source[1].val
                  target == edge_info.target[1].val
                  called == Call(st, "edge", edge_info.weight)
                  weight == edge_weight_fn(edge_info.weight)
              IN  IF weight # None
                  THEN [called EXCEPT !.edges =
                          Append(@, [source |-> source, target |-> target,
                                     weight |-> weight[1]])]
                  ELSE Return(called, Err("invalid edge weight"))

InvalidArm(st, v) == Return(st, Err("invalid item"))

\* match k.get_str() { ... } for one entry of the graph section.
Dispatch(st, e) ==
    CASE e.key = "directed" -> DirectedArm(st, e.val)
      [] e.key = "node"     -> NodeArm(st, e.val)
      [] e.key = "edge"     -> EdgeArm(st, e.val)
      [] OTHER              -> InvalidArm(st, e.val)

\* Variant: the edge is inserted from target to source.
ResolveEdge_Swapped(st, e) ==
    IF e.source \notin DOMAIN st.node_map \/ e.target \notin DOMAIN st.node_map
    THEN Return(st, Panic)
    ELSE [st EXCEPT !.graph =
            add_edge(@, st.node_map[e.target], st.node_map[e.source], e.weight)]

\* One iteration of the second loop: node_map[&id] panics on a missing key.
ResolveEdge(st, e) ==
    IF e.source \notin DOMAIN st.node_map \/ e.target \notin DOMAIN st.node_map
    THEN Return(st, Panic)
    ELSE [st EXCEPT !.graph =
            add_edge(@, st.node_map[e.source], st.node_map[e.target], e.weight)]

\* Variant: a top-level key other than "graph" is refused.
Open_RejectOther(sx) ==
    LET r == into_map(sx) IN
    IF r.tag = "Err" THEN Return(NewLocals, r)
    ELSE IF r.val.other THEN Return(NewLocals, Err("invalid item"))
    ELSE IF r.val.graph # None /\ r.val.graph[1].tag = "Map"
         THEN NewLocals
         ELSE Return(NewLocals, Err("no graph given or invalid"))

\* let mut map = sexp.into_map()?; if let Some(Sexp::Map(v)) = map.remove("graph")
Open(sx) ==
    LET r == into_map(sx) IN
    IF r.tag = "Err" THEN Return(NewLocals, r)
    ELSE IF r.val.graph # None /\ r.val.graph[1].tag = "Map"
         THEN NewLocals
         ELSE Return(NewLocals, Err("no graph given or invalid"))

Items(sx) ==
    IF sx.tag = "Map" /\ sx.graph # None /\ sx.graph[1].tag = "Map"
    THEN sx.graph[1].items
    ELSE <<>>

--------------------------------------------------------------------------
(* The state machine                                                       *)

VARIABLES sexp, pc, pos, epos, node_map, graph, edges, calls, result

vars == <<sexp, pc, pos, epos, node_map, graph, edges, calls, result>>

Locals ==
    [node_map |-> node_map, graph |-> graph, edges |-> edges,
     calls |-> calls, ret |-> None]

\* Assign the locals, and return or go on with the code after the step.
Continue(st, after) ==
    /\ node_map' = st.node_map
    /\ graph' = st.graph
    /\ edges' = st.edges
    /\ calls' = st.calls
    /\ IF st.ret # None
       THEN pc' = "done" /\ result' = st.ret[1]
       ELSE pc' = after /\ result' = result

Init ==
    /\ IsDocument(sexp)
    /\ pc = "start"
    /\ pos = 0
    /\ epos = 0
    /\ node_map = NewLocals.node_map
    /\ graph = NewLocals.graph
    /\ edges = NewLocals.edges
    /\ calls = NewLocals.calls
    /\ result = Pending

Start ==
    /\ pc = "start"
    /\ Continue(Open(sexp), "walk")
    /\ UNCHANGED <<sexp, pos, epos>>

WalkEntry(key) ==
    /\ pc = "walk"
    /\ pos < Len(Items(sexp))
    /\ Items(sexp)[pos + 1].key = key
    /\ pos' = pos + 1
    /\ Continue(Dispatch(Locals, Items(sexp)[pos + 1]), "walk")
    /\ UNCHANGED <<sexp, epos>>

WalkDirected == WalkEntry("directed")
WalkNode == WalkEntry("node")
WalkEdge == WalkEntry("edge")
WalkInvalid == WalkEntry("label")

WalkEnd ==
    /\ pc = "walk"
    /\ pos = Len(Items(sexp))
    /\ pc' = "resolve"
    /\ UNCHANGED <<sexp, pos, epos, node_map, graph, edges, calls, result>>

Resolve ==
    /\ pc = "resolve"
    /\ epos < Len(edges)
    /\ epos' = epos + 1
    /\ Continue(ResolveEdge(Locals, edges[epos + 1]), "resolve")
    /\ UNCHANGED <<sexp, pos>>

ReturnOk ==
    /\ pc = "resolve"
    /\ epos = Len(edges)
    /\ pc' = "done"
    /\ result' = Ok(graph)
    /\ UNCHANGED <<sexp, pos, epos, node_map, graph, edges, calls>>

Next ==
    \/ Start
    \/ WalkDirected
    \/ WalkNode
    \/ WalkEdge
    \/ WalkInvalid
    \/ WalkEnd
    \/ Resolve
    \/ ReturnOk

Spec == Init /\ [][Next]_vars

--------------------------------------------------------------------------
(* sexp_to_graph as a function of its input: the steps above, composed     *)

RECURSIVE RunWalk(_, _, _)
RunWalk(st, its, i) ==
    IF st.ret # None \/ i > Len(its) THEN st
    ELSE RunWalk(Dispatch(st, its[i]), its, i + 1)

RECURSIVE RunResolve(_, _)
RunResolve(st, i) ==
    IF st.ret # None THEN st
    ELSE IF i > Len(st.edges) THEN Return(st, Ok(st.graph))
    ELSE RunResolve(ResolveEdge(st, st.edges[i]), i + 1)

Run(sx) == RunResolve(RunWalk(Open(sx), Items(sx), 1), 1).ret[1]

--------------------------------------------------------------------------
(* Vocabulary of the properties: what a document declares                  *)

items == Items(sexp)

Opened == sexp.tag = "Map" /\ sexp.graph # None /\ sexp.graph[1].tag = "Map"

Done == pc = "done"

IsNode(e) == e.key = "node"
IsEdge(e) == e.key = "edge"

HasNodeId(e) == IsNode(e) /\ e.val.tag = "Map" /\ IsUInt(e.val.id)
HasEndpoints(e) ==
    IsEdge(e) /\ e.val.tag = "Map" /\ IsUInt(e.val.source) /\ IsUInt(e.val.target)

NodeId(e) == e.val.id[1].val
SourceId(e) == e.val.source[1].val
TargetId(e) == e.val.target[1].val

DirectedOk(e) == e.key = "directed" /\ e.val = UInt(1)
NodeOk(e) == HasNodeId(e) /\ node_weight_fn(e.val.weight) # None
EdgeOk(e) == HasEndpoints(e) /\ edge_weight_fn(e.val.weight) # None
EntryOk(e) == DirectedOk(e) \/ NodeOk(e) \/ EdgeOk(e)

\* The k-th entry declares an identifier that an earlier node entry declares.
DupAt(k) ==
    /\ HasNodeId(items[k])
    /\ \E j \in 1 .. k - 1 :
          HasNodeId(items[j]) /\ NodeId(items[j]) = NodeId(items[k])

FailsAt(k) == ~EntryOk(items[k]) \/ DupAt(k)

FirstFailure(k) ==
    k \in 1 .. Len(items) /\ FailsAt(k) /\ \A j \in 1 .. k - 1 : ~FailsAt(j)

DeclaredIds == {NodeId(items[k]) : k \in {j \in 1 .. Len(items) : HasNodeId(items[j])}}

NodeItems == SelectSeq(items, IsNode)
EdgeItems == SelectSeq(items, IsEdge)

\* Position (0-based) of the node entry that declares identifier n.
PositionOf(n) ==
    CHOOSE p \in 0 .. Len(NodeItems) - 1 : NodeId(NodeItems[p + 1]) = n

\* The entries among the first k that get as far as their weight mapper.
ReachesMapper(e) == HasNodeId(e) \/ HasEndpoints(e)

ExpectedCalls(k) ==
    LET s == SelectSeq(SubSeq(items, 1, k), ReachesMapper)
    IN  [i \in 1 .. Len(s) |-> [fn |-> s[i].key, arg |-> s[i].val.weight]]

\* The edge entries among the first k, as the triples they are buffered as.
ExpectedBuffer(k) ==
    LET s == SelectSeq(SubSeq(items, 1, k), EdgeOk)
    IN  [i \in 1 .. Len(s) |->
            [source |-> SourceId(s[i]), target |-> TargetId(s[i]),
             weight |-> edge_weight_fn(s[i].val.weight)[1]]]

\* The error of a failing entry: shape, then id / source, target, then weight.
ExpectedError(k) ==
    LET e == items[k] IN
    CASE e.key = "directed" -> "only directed graph supported"
      [] e.key = "node" ->
            IF e.val.tag # "Map" THEN "not a map"
            ELSE IF ~IsUInt(e.val.id) THEN "Invalid id"
            ELSE IF node_weight_fn(e.val.weight) = None THEN "invalid node weight"
            ELSE "duplicate node-id"
      [] e.key = "edge" ->
            IF e.val.tag # "Map" THEN "not a map"
            ELSE IF ~IsUInt(e.val.source) THEN "Invalid source id"
            ELSE IF ~IsUInt(e.val.target) THEN "Invalid target id"
            ELSE "invalid edge weight"
      [] OTHER -> "invalid item"

\* The entries with entry k taken out and put back in front of entry j (j < k).
MoveBefore(its, k, j) ==
    [i \in 1 .. Len(its) |->
        IF i < j \/ i > k THEN its[i]
        ELSE IF i = j THEN its[k]
        ELSE its[i - 1]]

--------------------------------------------------------------------------
(* Properties                                                              *)

\* C1: a graph section that is well-formed except for an edge whose source
\* or target no node entry declares ends in an error value: it neither
\* panics nor returns Ok.
C1_UnknownEndpointIsError ==
    (/\ Done
     /\ Opened
     /\ \A k \in 1 .. Len(items) : ~FailsAt(k)
     /\ \E k \in 1 .. Len(items) :
           /\ IsEdge(items[k])
           /\ ~({SourceId(items[k]), TargetId(items[k])} \subseteq DeclaredIds))
    => result.tag = "Err"

\* C2: a graph section without any "directed" entry is rejected: the call
\* ends in an error, never in Ok.
C2_MissingDirectedRejected ==
    (Done /\ Opened /\ \A k \in 1 .. Len(items) : items[k].key # "directed")
    => result.tag = "Err"

\* C3: the step that takes a "directed" entry returns exactly "only
\* directed graph supported" unless the value is the unsigned integer 1, and
\* then it leaves the graph, the identifier map and the edge buffer alone
\* and the walk goes on.
C3_DirectedOnlyOne ==
    [][WalkDirected =>
        IF items[pos + 1].val = UInt(1)
        THEN UNCHANGED <<graph, node_map, edges>> /\ pc' = "walk" /\ result' = Pending
        ELSE pc' = "done" /\ result' = Err("only directed graph supported")]_vars

C3_Witness ==
    /\ Done
    /\ pos = 3
    /\ IsNode(items[1])
    /\ items[2] = [key |-> "directed", val |-> UInt(1)]
    /\ items[3].key = "directed"
    /\ Len(graph.nodes) = 1
    /\ result = Err("only directed graph supported")

C5_EdgePlacementIrrelevant ==
    (Done /\ result.tag = "Ok") =>
        \A k \in 1 .. Len(items) : \A j \in 1 .. k - 1 :
            (IsEdge(items[k]) /\ \A m \in j .. k - 1 : ~IsEdge(items[m]))
            => Run(TopMap(Some(GraphSection(MoveBefore(items, k, j))), sexp.other))
                  = result

C5_Witness ==
    /\ Done
    /\ result.tag = "Ok"
    /\ Len(items) = 3
    /\ IsEdge(items[1])
    /\ IsNode(items[2])
    /\ IsNode(items[3])
    /\ {SourceId(items[1]), TargetId(items[1])} = {NodeId(items[2]), NodeId(items[3])}
    /\ Len(result.val.edges) = 1

\* C6: a document with two node entries declaring the same identifier is
\* never accepted; when all entries up to the second of them are valid (and
\* its weight is accepted) the error is exactly "duplicate node-id".
C6_DuplicateNodeIdRejected ==
    Done =>
        /\ (\E k \in 1 .. Len(items) : DupAt(k)) => result.tag = "Err"
        /\ \A k \in 1 .. Len(items) :
              (/\ DupAt(k)
               /\ \A j \in 1 .. k : EntryOk(items[j])
               /\ \A j \in 1 .. k - 1 : ~DupAt(j))
              => result = Err("duplicate node-id")

C6_Witness ==
    /\ Done
    /\ result = Err("duplicate node-id")
    /\ pos = 3
    /\ IsNode(items[1])
    /\ IsEdge(items[2])
    /\ DupAt(3)
    /\ NodeId(items[1]) = NodeId(items[3])

\* C7: a node entry with a valid id, or an edge entry with valid source and
\* target, whose weight the mapper declines makes the parse fail; it fails
\* with "invalid node weight" / "invalid edge weight" when that entry is the
\* first failing one; Ok means that the mappers gave a payload for every
\* node and edge entry.
C7_DeclinedWeightFails ==
    Done =>
        /\ \A k \in 1 .. Len(items) :
              LET e == items[k] IN
              /\ (HasNodeId(e) /\ node_weight_fn(e.val.weight) = None)
                    => /\ result.tag = "Err"
                       /\ FirstFailure(k) => result = Err("invalid node weight")
              /\ (HasEndpoints(e) /\ edge_weight_fn(e.val.weight) = None)
                    => /\ result.tag = "Err"
                       /\ FirstFailure(k) => result = Err("invalid edge weight")
        /\ result.tag = "Ok" =>
              /\ \A k \in 1 .. Len(items) :
                    /\ IsNode(items[k]) => NodeOk(items[k])
                    /\ IsEdge(items[k]) => EdgeOk(items[k])
              /\ calls = ExpectedCalls(Len(items))
              /\ Len(calls) = Len(NodeItems) + Len(EdgeItems)

C7_Witness ==
    /\ Done
    /\ result = Err("invalid edge weight")
    /\ pos = 3
    /\ NodeOk(items[1])
    /\ NodeOk(items[2])
    /\ HasEndpoints(items[3])
    /\ Len(calls) = 3

\* C8: an error return carries the error of the first failing entry in
\* declaration order (within an entry: shape, id / source then target,
\* weight mapper, duplicate), nothing but the error, and the walk stops
\* there: no later entry is examined, no mapper is invoked after the
\* failure, and no edge was inserted.
C8_FirstErrorAborts ==
    Done =>
        /\ \A k \in 1 .. Len(items) :
              FirstFailure(k) =>
                 /\ result = Err(ExpectedError(k))
                 /\ pos = k
                 /\ calls = ExpectedCalls(k)
                 /\ graph.edges = <<>>
        /\ result.tag = "Err" =>
              /\ DOMAIN result = {"tag", "msg"}
              /\ epos = 0
              /\ Opened => FirstFailure(pos)
              /\ ~Opened => pos = 0 /\ calls = <<>>

C8_Witness ==
    /\ Done
    /\ result = Err("duplicate node-id")
    /\ pos = 2
    /\ Len(items) = 3
    /\ ReachesMapper(items[3])
    /\ Len(calls) = 2
    /\ Len(graph.nodes) = 2

\* C9: a tree that is not a map fails with "not a map"; a map without a
\* "graph" key, or whose "graph" value is not a map, fails with "no graph
\* given or invalid"; otherwise the outcome is that of the graph section
\* alone, whether or not other top-level keys are present.
C9_OnlyGraphKeyMatters ==
    Done =>
        /\ sexp.tag # "Map" => result = Err("not a map")
        /\ (sexp.tag = "Map" /\ ~Opened) => result = Err("no graph given or invalid")
        /\ Opened =>
              /\ result = Run(TopMap(sexp.graph, FALSE))
              /\ result = Run(TopMap(sexp.graph, TRUE))
              /\ result # Err("no graph given or invalid")

C9_Witness ==
    /\ Done
    /\ Opened
    /\ sexp.other
    /\ result.tag = "Ok"
    /\ Len(result.val.nodes) = 2
    /\ Len(result.val.edges) = 1

\* C10: while entries are being walked the graph has no edge, the buffer
\* holds the accepted edges in declaration order, and the identifier map
\* maps one distinct identifier per inserted node onto the positions
\* 0 .. n-1; the node count exceeds the size of the map, by one, only where
\* "duplicate node-id" is returned; edges get into the graph only after the
\* last entry, in buffer order.
C10_FirstPassInvariant ==
    LET n == Len(graph.nodes) IN
    /\ pc = "walk" =>
          /\ graph.edges = <<>>
          /\ edges = ExpectedBuffer(pos)
          /\ Cardinality(DOMAIN node_map) = n
          /\ {node_map[x] : x \in DOMAIN node_map} = 0 .. n - 1
    /\ Cardinality(DOMAIN node_map) # n =>
          /\ Done
          /\ result = Err("duplicate node-id")
          /\ n = Cardinality(DOMAIN node_map) + 1
    /\ result = Err("duplicate node-id") => n = Cardinality(DOMAIN node_map) + 1
    /\ graph.edges # <<>> =>
          /\ pc \in {"resolve", "done"}
          /\ pos = Len(items)
          /\ edges = ExpectedBuffer(Len(items))
    /\ Len(graph.edges) <= epos
    /\ \A i \in 1 .. Len(graph.edges) :
          graph.edges[i] = [source |-> node_map[edges[i].source],
                            target |-> node_map[edges[i].target],
                            weight |-> edges[i].weight]

C10_Witness ==
    /\ pc = "walk"
    /\ pos = 3
    /\ Len(edges) = 1
    /\ Len(graph.nodes) = 2
    /\ graph.edges = <<>>

====
